---- MODULE Spec2Model ----
(***************************************************************************)
(* Model of src/src/ipc.js: the postMessage RPC layer of solid-auth-client *)
(* (Server, Client, combineHandlers).                                      *)
(*                                                                         *)
(* Two windows exchange messages.  Each window has a FIFO queue of message *)
(* events waiting to be dispatched (toServer, toClient) and a set of       *)
(* registered 'message' listeners (serverListeners, clientListeners).      *)
(* JavaScript values are encoded as pairs <<tag, payload>> so that all     *)
(* values are comparable; an object is a record with the set `has` of the  *)
(* keys it owns.                                                           *)
(***************************************************************************)
EXTENDS Integers, Sequences, FiniteSets, TLC

VARIABLES
  serverListeners, \* 'message' listeners registered on the server's window
  toServer,        \* message events queued for the server's window
  toClient,        \* message events queued for the client's window
  calls,           \* the Client's request() calls, in call order
  clientListeners, \* indices of calls whose responseListener is registered
  flows,           \* Server._handleMessage flows that got past the guards
  injected,        \* number of messages posted by other scripts so far
  lastOp,          \* history: the operation that produced this state
  lifecycle,       \* history: the last start()/stop() calls on the Server
  handlers,        \* combineHandlers: the handlers it was given
  combined,        \* combineHandlers: the last call of the combined handler
  _handler         \* the Server's handler: "any" function of the handler type,
                   \* or the "combined" handler of `handlers`

vars == <<serverListeners, toServer, toClient, calls, clientListeners, flows,
          injected, lastOp, lifecycle, handlers, combined, _handler>>

ipcVars == <<serverListeners, toServer, toClient, calls, clientListeners,
             flows, injected, lastOp, lifecycle>>

combineVars == <<handlers, combined, _handler>>

----------------------------------------------------------------------------
(* Bounds of the model *)

MaxCalls == 2      \* Client.request() calls made
MaxInject == 2     \* messages posted by scripts other than Client and Server
MaxHandlers == 3   \* handlers given to combineHandlers

----------------------------------------------------------------------------
(* JavaScript values *)

Undefined == <<"undefined", <<>>>>
Null == <<"null", <<>>>>
Ok == <<"string:ok", <<>>>>
Forged == <<"string:forged", <<>>>>
Arr(a) == <<"array", a>>

\* Origins of the windows involved.
ClientOrigin == "https://app.example"
ServerOrigin == "https://popup.example"
OtherOrigin == "https://evil.example"

\* The key all protocol traffic is nested under.
NAMESPACE == "solid-auth-client"

\* The value read from a key the object does not own.
NoId == 0

\* Method names and argument lists used by the callers of request().
Methods == {"echo", ""}
ArgLists == {<<1, 2>>}

\* A message payload: `ns` tells whether data[NAMESPACE] is an object, `has`
\* the keys that object owns; a slot of a key it does not own holds the
\* value reading it yields (undefined).
Payload(has, id, method, args, ret) ==
  [ns |-> TRUE, has |-> has,
   id |-> IF "id" \in has THEN id ELSE NoId,
   method |-> IF "method" \in has THEN method ELSE "",
   args |-> IF "args" \in has THEN args ELSE <<>>,
   ret |-> IF "ret" \in has THEN ret ELSE Undefined]

NoPayload ==
  [ns |-> FALSE, has |-> {}, id |-> NoId, method |-> "", args |-> <<>>,
   ret |-> Undefined]

\* { [NAMESPACE]: { id, method, args } }
RequestEnvelope(id, method, args) ==
  Payload({"id", "method", "args"}, id, method, args, Undefined)

\* { [NAMESPACE]: { id, ret } }
ResponseEnvelope(id, ret) ==
  Payload({"id", "ret"}, id, "", <<>>, ret)

MessageEvent(origin, data) == [origin |-> origin, data |-> data]

NoMessage == MessageEvent("", NoPayload)

\* History: the operation just run and the message event it dispatched (if
\* it is a dispatch).
Op(name, msg) == [name |-> name, msg |-> msg]

\* History: the last three start()/stop() calls, oldest first.
Called(name) ==
  IF Len(lifecycle) < 3
    THEN Append(lifecycle, name)
    ELSE <<lifecycle[2], lifecycle[3], name>>

----------------------------------------------------------------------------
(* combineHandlers *)

\* What a handler returns (?Promise<any>): null, nothing, or a promise;
\* `value` is what the promise resolves to.
NullRet == [kind |-> "null", value |-> Undefined]
UndefinedRet == [kind |-> "undefined", value |-> Undefined]
PromiseOf(v) == [kind |-> "promise", value |-> v]

\* The value `await r` yields.
Await(r) ==
  CASE r.kind = "null" -> Null
    [] r.kind = "undefined" -> Undefined
    [] r.kind = "promise" -> r.value

\* The handlers given to combineHandlers in this model, by what they do:
\*   "null"   returns null for every method
\*   "void"   returns nothing for every method
\*   "ok"     returns a promise of "ok" for every method
\*   "echo"   returns a promise of its args for "echo", null otherwise
\*   "pnull"  returns a promise of null for every method
HandlerKinds == {"null", "void", "ok", "echo", "pnull"}

\* handler(method, ...args)
Invoke(h, method, args) ==
  CASE h = "null" -> NullRet
    [] h = "void" -> UndefinedRet
    [] h = "ok" -> PromiseOf(Ok)
    [] h = "echo" -> IF method = "echo" THEN PromiseOf(Arr(args)) ELSE NullRet
    [] h = "pnull" -> PromiseOf(Null)

\* Mutant: the loose comparison promise != null, which undefined fails too.
NotNullish(promise) == promise.kind \notin {"null", "undefined"}

\* Mutant: a promise that resolves to null is treated like null.
NotNullResolved(promise) ==
  promise.kind # "null" /\ ~(promise.kind = "promise" /\ promise.value = Null)

\* promise => promise !== null
NotNull(promise) == promise.kind # "null"

\* Mutant: find yields null when no element satisfies the predicate.
findOrNull(array) ==
  LET hits == {i \in 1..Len(array) : NotNull(array[i])} IN
    IF hits = {} THEN NullRet
    ELSE array[CHOOSE i \in hits : \A j \in hits : i <= j]

\* Array.prototype.find with the predicate NotNull: the first element that
\* satisfies it, undefined when none does.
find(array) ==
  LET hits == {i \in 1..Len(array) : NotNull(array[i])} IN
    IF hits = {} THEN UndefinedRet
    ELSE array[CHOOSE i \in hits : \A j \in hits : i <= j]

\* One call of a handler, as a test spy would record it.
Invocation(h, method, args) == [handler |-> h, method |-> method, args |-> args]

\* Mutant: the handlers after the first one that did not return null are
\* not called.
invocationsUntilFound(hs, method, args) ==
  LET hits == {i \in 1..Len(hs) : Invoke(hs[i], method, args).kind # "null"}
      last == IF hits = {} THEN Len(hs)
              ELSE CHOOSE i \in hits : \A j \in hits : i <= j
  IN [i \in 1..last |-> Invocation(hs[i], method, args)]

\* The calls handlers.map(handler => handler(method, ...args)) makes, in the
\* order it makes them.
invocations(hs, method, args) ==
  [i \in 1..Len(hs) |-> Invocation(hs[i], method, args)]

\* handlers.map(handler => handler(method, ...args))
map(hs, method, args) == [i \in 1..Len(hs) |-> Invoke(hs[i], method, args)]

\* combineHandlers(...hs)(method, ...args)
combineHandlers(hs, method, args) == find(map(hs, method, args))

NotCalled ==
  [called |-> FALSE, method |-> "", args |-> <<>>, invoked |-> <<>>,
   result |-> UndefinedRet]

\* The record of one call of the combined handler: `invoked` lists the
\* handlers map() called, in the order it called them.
CombinedRecord(method, args) ==
  [called |-> TRUE, method |-> method, args |-> args,
   invoked |-> invocations(handlers, method, args),
   result |-> combineHandlers(handlers, method, args)]

\* One call of the combined handler.
CombinedCall(method, args) ==
  /\ ~combined.called
  /\ combined' = CombinedRecord(method, args)
  /\ UNCHANGED <<handlers, _handler, ipcVars>>

\* All lists of at most n handlers.
HandlerLists(n) ==
  UNION {[1..k -> HandlerKinds] : k \in 0..n}

----------------------------------------------------------------------------
(* Server *)

\* Server constructor: the origin the Server was configured with.
clientOrigin == ClientOrigin

\* The one listener a Server ever registers (this._messageListener).
messageListener == "messageListener"

\* Mutant: the origin check left out.
OriginMatchesAny(origin) == TRUE

\* origin !== this._clientOrigin
OriginMatches(origin) == origin = clientOrigin

\* Mutant: every namespaced message is taken for a request.
IsRequestNamespaced(data) == data.ns

\* const req = data && data[NAMESPACE]; if (req && req.method)
IsRequest(data) == data.ns /\ "method" \in data.has /\ data.method # ""

\* What the injected handler does when called (the type ?Promise<any>):
\*   "promise"    returns a promise still pending when the task of the
\*                message event ends
\*   "resolved"   returns a promise resolved by then (Promise.resolve(v), an
\*                async function that returns at once)
\*   "null"       returns null
\*   "undefined"  returns nothing
\*   "throw"      throws, or returns a promise rejected by then
HandlerReturns == {"promise", "resolved", "null", "undefined", "throw"}

\* What a handler's promise may resolve to for a call: its arguments as an
\* array (an echo method) or a fixed string.
HandlerValues(args) == {Arr(args), Ok}

\* this._handler(method, ...args): what the call returns.  A handler made by
\* combineHandlers returns what find() yields; find() never yields null, and
\* a promise it yields may be resolved already or still pending.
HandlerCall(method, args) ==
  IF _handler = "combined"
    THEN IF combineHandlers(handlers, method, args).kind = "promise"
           THEN {"promise", "resolved"}
           ELSE {combineHandlers(handlers, method, args).kind}
    ELSE HandlerReturns

\* How the flow of a request stands when the task of its message event ends,
\* for a handler that did h: `st` as in Flow, `ret` the value `await` gave.
Outcomes(h, method, args) ==
  CASE h = "promise" -> {[st |-> "awaiting", ret |-> Undefined]}
    [] h = "throw" -> {[st |-> "rejected", ret |-> Undefined]}
    [] h = "null" -> {[st |-> "responded", ret |-> Null]}
    [] h = "undefined" -> {[st |-> "responded", ret |-> Undefined]}
    [] h = "resolved" ->
         {[st |-> "responded", ret |-> v] :
            v \in IF _handler = "combined"
                    THEN {Await(combineHandlers(handlers, method, args))}
                    ELSE HandlerValues(args)}

Flow(ev, st, ret) ==
  [id |-> ev.data.id, method |-> ev.data.method, args |-> ev.data.args,
   origin |-> ev.origin, st |-> st, ret |-> ret]

\* Mutant: the response does not echo the request's id.
PostResponseNoId(queue, id, ret) ==
  Append(queue, MessageEvent(ServerOrigin, ResponseEnvelope(NoId, ret)))

\* Mutant: the response is posted twice.
PostResponseTwice(queue, id, ret) ==
  Append(Append(queue, MessageEvent(ServerOrigin, ResponseEnvelope(id, ret))),
         MessageEvent(ServerOrigin, ResponseEnvelope(id, ret)))

\* this._clientWindow.postMessage({ [NAMESPACE]: { id, ret } }, this._clientOrigin):
\* the client window's queue after the post.
PostResponse(queue, id, ret) ==
  Append(queue, MessageEvent(ServerOrigin, ResponseEnvelope(id, ret)))

\* What one call of the handler may do, before it returns or in microtasks
\* it queues, to the promises earlier calls returned and that are still
\* pending: it resolves or rejects any of them, in any order.  A combined
\* handler of the handlers of this model touches none.
Settled ==
  LET awaiting == {i \in 1..Len(flows) : flows[i].st = "awaiting"}
      one == UNION {{[flow |-> i, st |-> "responded", ret |-> v] :
                        v \in HandlerValues(flows[i].args)}
                    \cup {[flow |-> i, st |-> "rejected", ret |-> Undefined]} :
                    i \in awaiting}
  IN IF _handler = "combined" THEN {<<>>}
     ELSE {s \in UNION {[1..k -> one] : k \in 0..Cardinality(awaiting)} :
             \A a, b \in 1..Len(s) : a # b => s[a].flow # s[b].flow}

\* Microtasks of the task: the flows whose promises were settled resume after
\* their `await`, in the order they were settled, and those that were
\* resolved post their responses.  Yields the flows and the client window's
\* queue afterwards.
RECURSIVE Continue(_, _, _)
Continue(fs, queue, s) ==
  IF s = <<>> THEN <<fs, queue>>
  ELSE LET e == Head(s) IN
         Continue([fs EXCEPT ![e.flow].st = e.st, ![e.flow].ret = e.ret],
                  IF e.st = "responded"
                    THEN PostResponse(queue, fs[e.flow].id, e.ret)
                    ELSE queue,
                  Tail(s))

\* _handleMessage as run by the task of one message event, microtasks
\* included: the guards, the destructuring, the spread of args, the call of
\* the handler, and every continuation that runs before the task ends.
\* `await` yields for every value: a flow whose handler returned no promise,
\* or a promise resolved by then, resumes and posts in this task, behind the
\* earlier flows settled before it (the first k of s) and ahead of those
\* settled after it; a flow whose promise is still pending is left awaiting.
_handleMessage(ev) ==
  IF ~OriginMatches(ev.origin)
    THEN UNCHANGED <<flows, toClient, combined>>   \* console.warn(...); return
  ELSE IF ~IsRequest(ev.data)
    THEN UNCHANGED <<flows, toClient, combined>>
  ELSE IF "args" \notin ev.data.has
    THEN \* ...args of undefined: TypeError before the handler is called
         /\ flows' = Append(flows, Flow(ev, "threw", Undefined))
         /\ UNCHANGED <<toClient, combined>>
  ELSE /\ combined' = IF _handler = "combined"
                        THEN CombinedRecord(ev.data.method, ev.data.args)
                        ELSE combined
       /\ \E h \in HandlerCall(ev.data.method, ev.data.args), s \in Settled :
          \E o \in Outcomes(h, ev.data.method, ev.data.args), k \in 0..Len(s) :
            /\ o.st # "responded" => k = Len(s)
            /\ LET before == Continue(flows, toClient, SubSeq(s, 1, k))
                   posted == IF o.st = "responded"
                               THEN PostResponse(before[2], ev.data.id, o.ret)
                               ELSE before[2]
                   after == Continue(before[1], posted, SubSeq(s, k + 1, Len(s)))
               IN /\ flows' = Append(after[1], Flow(ev, o.st, o.ret))
                  /\ toClient' = after[2]

\* The server's window dispatches its next message event to its listeners.
ServerDispatch ==
  /\ toServer # <<>>
  /\ toServer' = Tail(toServer)
  /\ lastOp' = Op("deliverServer", Head(toServer))
  /\ IF messageListener \in serverListeners
       THEN _handleMessage(Head(toServer))
       ELSE UNCHANGED <<flows, toClient, combined>>
  /\ UNCHANGED <<serverListeners, calls, clientListeners, injected, lifecycle,
                 handlers, _handler>>

\* Mutant: responses are posted in the order the requests arrived.
HandlerResolvesInOrder(i, v) ==
  /\ flows[i].st = "awaiting"
  /\ \A j \in 1..(i - 1) : flows[j].st # "awaiting"
  /\ flows' = [flows EXCEPT ![i].st = "responded", ![i].ret = v]
  /\ toClient' = Append(toClient,
                        MessageEvent(ServerOrigin, ResponseEnvelope(flows[i].id, v)))
  /\ lastOp' = Op("resolve", NoMessage)
  /\ UNCHANGED <<serverListeners, toServer, calls, clientListeners, injected,
                 lifecycle, combineVars>>

\* Mutant: a flow resumes only while the Server is started.
HandlerResolvesIfStarted(i, v) ==
  /\ flows[i].st = "awaiting"
  /\ messageListener \in serverListeners
  /\ flows' = [flows EXCEPT ![i].st = "responded", ![i].ret = v]
  /\ toClient' = Append(toClient,
                        MessageEvent(ServerOrigin, ResponseEnvelope(flows[i].id, v)))
  /\ lastOp' = Op("resolve", NoMessage)
  /\ UNCHANGED <<serverListeners, toServer, calls, clientListeners, injected,
                 lifecycle, combineVars>>

\* The handler's promise resolves to v: the flow resumes after `await` and
\* posts the response.
HandlerResolves(i, v) ==
  /\ flows[i].st = "awaiting"
  /\ flows' = [flows EXCEPT ![i].st = "responded", ![i].ret = v]
  /\ toClient' = PostResponse(toClient, flows[i].id, v)
  /\ lastOp' = Op("resolve", NoMessage)
  /\ UNCHANGED <<serverListeners, toServer, calls, clientListeners, injected,
                 lifecycle, combineVars>>

\* Mutant: a rejection is answered with a response whose ret is undefined.
HandlerRejectsAnswered(i) ==
  /\ flows[i].st = "awaiting"
  /\ flows' = [flows EXCEPT ![i].st = "rejected"]
  /\ toClient' = Append(toClient,
                        MessageEvent(ServerOrigin, ResponseEnvelope(flows[i].id, Undefined)))
  /\ lastOp' = Op("reject", NoMessage)
  /\ UNCHANGED <<serverListeners, toServer, calls, clientListeners, injected,
                 lifecycle, combineVars>>

\* The handler's promise rejects: `await` throws, the flow ends.
HandlerRejects(i) ==
  /\ flows[i].st = "awaiting"
  /\ flows' = [flows EXCEPT ![i].st = "rejected"]
  /\ lastOp' = Op("reject", NoMessage)
  /\ UNCHANGED <<serverListeners, toServer, toClient, calls, clientListeners,
                 injected, lifecycle, combineVars>>

\* Mutant: start() registers a new closure on every call.
startFresh ==
  /\ serverListeners' = serverListeners \cup
       {IF messageListener \in serverListeners
          THEN "anotherListener" ELSE messageListener}
  /\ lastOp' = Op("start", NoMessage)
  /\ lifecycle' = Called("start")
  /\ UNCHANGED <<toServer, toClient, calls, clientListeners, flows, injected,
                 combineVars>>

\* window.addEventListener('message', this._messageListener): the window
\* keeps one registration per listener function.
start ==
  /\ serverListeners' = serverListeners \cup {messageListener}
  /\ lastOp' = Op("start", NoMessage)
  /\ lifecycle' = Called("start")
  /\ UNCHANGED <<toServer, toClient, calls, clientListeners, flows, injected,
                 combineVars>>

\* Mutant: stop() fails unless the listener is registered.
stopRegistered ==
  /\ messageListener \in serverListeners
  /\ serverListeners' = serverListeners \ {messageListener}
  /\ lastOp' = Op("stop", NoMessage)
  /\ lifecycle' = Called("stop")
  /\ UNCHANGED <<toServer, toClient, calls, clientListeners, flows, injected,
                 combineVars>>

\* window.removeEventListener('message', this._messageListener)
stop ==
  /\ serverListeners' = serverListeners \ {messageListener}
  /\ lastOp' = Op("stop", NoMessage)
  /\ lifecycle' = Called("stop")
  /\ UNCHANGED <<toServer, toClient, calls, clientListeners, flows, injected,
                 combineVars>>

----------------------------------------------------------------------------
(* Client *)

\* const id = uuid(): an id no earlier call has.
uuid == Len(calls) + 1

Call(id, method, args) ==
  [id |-> id, method |-> method, args |-> args, state |-> "pending",
   value |-> Undefined]

\* Client.request(method, ...args): post the request, register the listener.
request(method, args) ==
  /\ Len(calls) < MaxCalls
  /\ toServer' = Append(toServer,
                        MessageEvent(ClientOrigin, RequestEnvelope(uuid, method, args)))
  /\ calls' = Append(calls, Call(uuid, method, args))
  /\ clientListeners' = clientListeners \cup {Len(calls) + 1}
  /\ lastOp' = Op("request", NoMessage)
  /\ UNCHANGED <<serverListeners, toClient, flows, injected, lifecycle, combineVars>>

\* Mutant: the listener does not compare ids.
IsResponseForAny(data, id) == data.ns /\ "ret" \in data.has

\* Mutant: the listener does not require the `ret` field.
IsResponseForId(data, id) == data.ns /\ data.id = id

\* resp && resp.id === id && resp.hasOwnProperty('ret')
IsResponseFor(data, id) == data.ns /\ data.id = id /\ "ret" \in data.has

\* resolve(v) of the call's promise: a promise settles once.
resolve(call, v) ==
  IF call.state = "pending"
    THEN [call EXCEPT !.state = "resolved", !.value = v]
    ELSE call

\* Mutant: the listener never unregisters itself.
UnregisteredNone(data) == {}

\* The listeners responseListener removes when run on `data`.
Unregistered(data) ==
  {i \in clientListeners : IsResponseFor(data, calls[i].id)}

\* Mutant: the listener ignores messages not sent from the server's origin.
ClientDispatchFromServer ==
  /\ toClient # <<>>
  /\ toClient' = Tail(toClient)
  /\ lastOp' = Op("deliverClient", Head(toClient))
  /\ LET data == Head(toClient).data
         ok == Head(toClient).origin = ServerOrigin IN
       /\ calls' = [i \in 1..Len(calls) |->
                      IF ok /\ i \in clientListeners
                            /\ data.ns /\ data.id = calls[i].id /\ "ret" \in data.has
                        THEN resolve(calls[i], data.ret)
                        ELSE calls[i]]
       /\ clientListeners' =
            clientListeners \ {i \in clientListeners :
                                 ok /\ data.ns /\ data.id = calls[i].id
                                    /\ "ret" \in data.has}
  /\ UNCHANGED <<serverListeners, toServer, flows, injected, lifecycle, combineVars>>

\* The client's window dispatches its next message event to the
\* responseListener of every call that has one registered.
ClientDispatch ==
  /\ toClient # <<>>
  /\ toClient' = Tail(toClient)
  /\ lastOp' = Op("deliverClient", Head(toClient))
  /\ LET data == Head(toClient).data IN
       /\ calls' = [i \in 1..Len(calls) |->
                      IF i \in clientListeners /\ IsResponseFor(data, calls[i].id)
                        THEN resolve(calls[i], data.ret)
                        ELSE calls[i]]
       /\ clientListeners' = clientListeners \ Unregistered(data)
  /\ UNCHANGED <<serverListeners, toServer, flows, injected, lifecycle, combineVars>>

----------------------------------------------------------------------------
(* Other scripts posting to the two windows *)

\* Messages a script may post to the server's window.  From the client's
\* origin: no namespace key, a request with `method`, `id` or `args` missing
\* or with an empty method, full requests (two of them sharing an id), and a
\* response envelope.  From another origin: a full request.
ServerInjections ==
  {MessageEvent(ClientOrigin, d) : d \in
     {NoPayload,
      Payload({"id", "args"}, 1, "", <<2, 1>>, Undefined),
      Payload({"method", "args"}, NoId, "echo", <<2, 1>>, Undefined),
      Payload({"id", "method"}, 1, "echo", <<>>, Undefined),
      RequestEnvelope(1, "", <<2, 1>>),
      RequestEnvelope(1, "echo", <<2, 1>>),
      RequestEnvelope(2, "echo", <<>>),
      ResponseEnvelope(1, Forged)}}
  \cup
  {MessageEvent(OtherOrigin, RequestEnvelope(1, "echo", <<2, 1>>))}

\* Messages a script may post to the client's window: responses for every
\* call id, a second response for the first id from another origin, a
\* response whose `ret` is undefined, a namespaced object without `ret` or
\* without `id`, a request envelope and a payload without the namespace key.
ClientInjections ==
  {MessageEvent(ServerOrigin, ResponseEnvelope(id, ret)) :
     id \in 1..MaxCalls, ret \in {Ok, Arr(<<1, 2>>)}}
  \cup
  {MessageEvent(ServerOrigin, ResponseEnvelope(1, Undefined)),
   MessageEvent(OtherOrigin, ResponseEnvelope(1, Forged)),
   MessageEvent(OtherOrigin, Payload({"id"}, 1, "", <<>>, Undefined)),
   MessageEvent(OtherOrigin, Payload({"ret"}, NoId, "", <<>>, Forged)),
   MessageEvent(OtherOrigin, RequestEnvelope(1, "echo", <<2, 1>>)),
   MessageEvent(OtherOrigin, NoPayload)}

\* otherWindow.postMessage(data, ...) with the server's window as target.
InjectServer(ev) ==
  /\ injected < MaxInject
  /\ injected' = injected + 1
  /\ toServer' = Append(toServer, ev)
  /\ lastOp' = Op("postToServer", NoMessage)
  /\ UNCHANGED <<serverListeners, toClient, calls, clientListeners, flows,
                 lifecycle, combineVars>>

\* otherWindow.postMessage(data, ...) with the client's window as target.
InjectClient(ev) ==
  /\ injected < MaxInject
  /\ injected' = injected + 1
  /\ toClient' = Append(toClient, ev)
  /\ lastOp' = Op("postToClient", NoMessage)
  /\ UNCHANGED <<serverListeners, toServer, calls, clientListeners, flows,
                 lifecycle, combineVars>>

----------------------------------------------------------------------------
(* Specifications *)

Init ==
  /\ serverListeners = {}
  /\ toServer = <<>>
  /\ toClient = <<>>
  /\ calls = <<>>
  /\ clientListeners = {}
  /\ flows = <<>>
  /\ injected = 0
  /\ lastOp = Op("init", NoMessage)
  /\ lifecycle = <<>>
  /\ handlers = <<>>
  /\ combined = NotCalled
  /\ _handler = "any"

\* The Server's own steps.
ServerSteps ==
  \/ start
  \/ stop
  \/ ServerDispatch
  \/ \E i \in 1..Len(flows) : \E v \in HandlerValues(flows[i].args) : HandlerResolves(i, v)
  \/ \E i \in 1..Len(flows) : HandlerRejects(i)

\* The Client's own steps.
ClientSteps ==
  \/ \E m \in Methods, a \in ArgLists : request(m, a)
  \/ ClientDispatch

\* A Server on a window any script may post to.
ServerNext ==
  \/ ServerSteps
  \/ \E ev \in ServerInjections : InjectServer(ev)

ServerSpec == Init /\ [][ServerNext]_vars

\* A Client on a window any script may post to.
ClientNext ==
  \/ ClientSteps
  \/ \E ev \in ClientInjections : InjectClient(ev)

ClientSpec == Init /\ [][ClientNext]_vars

\* Client and Server alone on the channel.
PairNext ==
  \/ ServerSteps
  \/ ClientSteps

PairSpec == Init /\ [][PairNext]_vars

\* The event loop runs every queued message event.
FairPairSpec ==
  PairSpec /\ WF_vars(ServerDispatch) /\ WF_vars(ClientDispatch)

\* The handlers of a Server built on combineHandlers: each either declines
\* every method, claims "echo" only, or claims every method.
ServedHandlers ==
  {hs \in HandlerLists(MaxHandlers) :
     \A i \in 1..Len(hs) : hs[i] \in {"null", "echo", "ok"}}

\* new Server(clientWindow, clientOrigin, combineHandlers(...handlers))
CombinedInit ==
  /\ serverListeners = {}
  /\ toServer = <<>>
  /\ toClient = <<>>
  /\ calls = <<>>
  /\ clientListeners = {}
  /\ flows = <<>>
  /\ injected = 0
  /\ lastOp = Op("init", NoMessage)
  /\ lifecycle = <<>>
  /\ handlers \in ServedHandlers
  /\ combined = NotCalled
  /\ _handler = "combined"

\* The promise the combined handler returned resolves: the flow resumes.
CombinedResolves(i) ==
  /\ _handler = "combined"
  /\ HandlerResolves(i, Await(combineHandlers(handlers, flows[i].method,
                                               flows[i].args)))

\* A Client and a Server whose handler is a combined handler, alone on the
\* channel.
CombinedNext ==
  \/ start
  \/ stop
  \/ ServerDispatch
  \/ \E i \in 1..Len(flows) : CombinedResolves(i)
  \/ ClientSteps

CombinedSpec == CombinedInit /\ [][CombinedNext]_vars

\* Envelopes that reach the other side's listener when Client and Server
\* share one channel: the Client's requests at the Client, the Server's
\* responses at the Server (sent from the origin the Server accepts).
SharedToClient ==
  {MessageEvent(ServerOrigin, RequestEnvelope(1, "echo", <<1, 2>>))}

SharedToServer ==
  {MessageEvent(ClientOrigin, ResponseEnvelope(1, Ok))}

\* Client and a started Server on one channel: each side's listener also
\* receives envelopes of the kind it posts itself.
SharedNext ==
  \/ start
  \/ ServerDispatch
  \/ \E i \in 1..Len(flows) : \E v \in HandlerValues(flows[i].args) : HandlerResolves(i, v)
  \/ ClientSteps
  \/ \E ev \in SharedToServer : InjectServer(ev)
  \/ \E ev \in SharedToClient : InjectClient(ev)

SharedSpec == Init /\ [][SharedNext]_vars

\* combineHandlers applied to any list of handlers, called with any method.
CombineInit ==
  /\ serverListeners = {}
  /\ toServer = <<>>
  /\ toClient = <<>>
  /\ calls = <<>>
  /\ clientListeners = {}
  /\ flows = <<>>
  /\ injected = 0
  /\ lastOp = Op("init", NoMessage)
  /\ lifecycle = <<>>
  /\ handlers \in HandlerLists(MaxHandlers)
  /\ combined = NotCalled
  /\ _handler = "combined"

CombineNext == \E m \in Methods, a \in ArgLists : CombinedCall(m, a)

CombineSpec == CombineInit /\ [][CombineNext]_vars

\* Client and Server on windows other scripts post to as well.
Next ==
  \/ ServerSteps
  \/ ClientSteps
  \/ \E ev \in ServerInjections : InjectServer(ev)
  \/ \E ev \in ClientInjections : InjectClient(ev)

Spec == Init /\ [][Next]_vars

----------------------------------------------------------------------------
(* Steps and helpers the properties are stated with *)

\* The step is the dispatch of the head of toServer.
ServerDelivery == toServer # <<>> /\ lastOp' = Op("deliverServer", Head(toServer))

\* The step is the dispatch of the head of toClient.
ClientDelivery == toClient # <<>> /\ lastOp' = Op("deliverClient", Head(toClient))

\* The flows that called the handler for a request carrying `id`.
Invocations(id) ==
  {i \in 1..Len(flows) : flows[i].id = id /\ flows[i].st # "threw"}

\* The flows whose handler resolved (or returned no promise) and that posted.
Responded == {i \in 1..Len(flows) : flows[i].st = "responded"}

----------------------------------------------------------------------------
(* C1 *)

\* Every call of the handler carries the method and the args, in order, of
\* the request() call that has its id.
C1_InvokedAsRequested ==
  \A i \in 1..Len(flows) :
    flows[i].st # "threw" =>
      \E c \in 1..Len(calls) :
        /\ calls[c].id = flows[i].id
        /\ calls[c].method = flows[i].method
        /\ calls[c].args = flows[i].args

\* A resolved call holds the value its handler's promise resolved to.
C1_ResolvedToHandlerValue ==
  \A c \in 1..Len(calls) :
    calls[c].state = "resolved" =>
      \E i \in Responded :
        flows[i].id = calls[c].id /\ flows[i].ret = calls[c].value

\* The handler's promise for call c has resolved.
C1_HandlerResolved(c) ==
  c <= Len(calls) /\ \E i \in Responded : flows[i].id = calls[c].id

\* Call c is resolved to the value its handler's promise resolved to.
C1_CallResolved(c) ==
  /\ c <= Len(calls)
  /\ calls[c].state = "resolved"
  /\ \E i \in Responded :
       flows[i].id = calls[c].id /\ flows[i].ret = calls[c].value

\* C1: with Client and Server alone on the channel, the handler is called
\* with exactly the method and args of the request, a resolved call holds
\* exactly the value the handler's promise resolved to, and every call whose
\* handler's promise resolves is eventually resolved to that value.
C1_RoundTrip ==
  /\ [](C1_InvokedAsRequested /\ C1_ResolvedToHandlerValue)
  /\ \A c \in 1..MaxCalls : C1_HandlerResolved(c) ~> C1_CallResolved(c)

\* request("echo", 1, 2) against an echo handler has resolved to [1, 2].
C1_Witness ==
  \E c \in 1..Len(calls) :
    /\ calls[c].method = "echo"
    /\ calls[c].args = <<1, 2>>
    /\ calls[c].state = "resolved"
    /\ calls[c].value = Arr(<<1, 2>>)
    /\ \E i \in Responded :
         /\ flows[i].id = calls[c].id
         /\ flows[i].method = "echo"
         /\ flows[i].args = <<1, 2>>
         /\ flows[i].ret = Arr(<<1, 2>>)

----------------------------------------------------------------------------
(* C2 *)

\* C2: the dispatch of a message whose origin is not the configured client
\* origin, whatever its payload, calls no handler and posts no response.
C2_ForeignOriginIgnored ==
  [][(ServerDelivery /\ Head(toServer).origin # clientOrigin)
       => UNCHANGED <<flows, toClient>>]_vars

\* A started Server has just been handed a well-formed request from another
\* origin; nothing was called and nothing posted.
C2_Witness ==
  /\ lastOp.name = "deliverServer"
  /\ lastOp.msg.origin = OtherOrigin
  /\ lastOp.msg.data = RequestEnvelope(1, "echo", <<2, 1>>)
  /\ messageListener \in serverListeners
  /\ flows = <<>>
  /\ toClient = <<>>

----------------------------------------------------------------------------
(* C3 *)

\* The namespaced value lacks `method` or lacks `id`, or there is none.
C3_Incomplete(data) ==
  ~data.ns \/ "method" \notin data.has \/ "id" \notin data.has

\* C3 (as claimed): the dispatch of a message from the configured origin
\* whose payload lacks the namespace key, `method` or `id` starts no flow
\* that calls the handler or throws.
C3_IncompleteIgnored ==
  [][(ServerDelivery /\ Head(toServer).origin = clientOrigin
        /\ C3_Incomplete(Head(toServer).data))
       => flows' = flows]_vars

----------------------------------------------------------------------------
(* C4 *)

\* C4: on every dispatch to the client's window, a pending call is resolved
\* if and only if the message carries the namespace key, the call's own id
\* and a `ret` field, and it is resolved to that message's `ret`; in no
\* other step is a call resolved.
C4_OwnResponseOnly ==
  [][\A c \in 1..Len(calls) :
       IF ClientDelivery /\ calls[c].state = "pending"
            /\ Head(toClient).data.ns
            /\ Head(toClient).data.id = calls[c].id
            /\ "ret" \in Head(toClient).data.has
         THEN /\ calls'[c].state = "resolved"
              /\ calls'[c].value = Head(toClient).data.ret
         ELSE calls'[c] = calls[c]]_vars

\* Two calls are resolved to different values, the first call by the message
\* dispatched last: the second call's response arrived first.
C4_Witness ==
  /\ Len(calls) = 2
  /\ calls[1].state = "resolved"
  /\ calls[2].state = "resolved"
  /\ calls[1].value # calls[2].value
  /\ injected = 2
  /\ toClient = <<>>
  /\ lastOp.name = "deliverClient"
  /\ lastOp.msg.data = ResponseEnvelope(calls[1].id, calls[1].value)

----------------------------------------------------------------------------
(* C5 *)

\* The responses posted so far for requests carrying `id`.
C5_Posted(id) ==
  Cardinality({i \in Responded : flows[i].id = id})

\* C5 (as claimed): once the handling of an accepted request has ended,
\* exactly one response has been posted for its id.
C5_ExactlyOnePerId ==
  \A i \in 1..Len(flows) :
    flows[i].st # "awaiting" => C5_Posted(flows[i].id) = 1

\* The response a responded flow posts.
C5_ResponseOf(i) ==
  MessageEvent(ServerOrigin, ResponseEnvelope(flows[i].id, flows[i].ret))

\* C5 (amended): the Server posts exactly one response, carrying the
\* request's id and the handler's value, for each accepted request whose
\* handler resolved or returned no promise, and none for a request whose
\* handler threw or rejected, whose handling threw, or whose handler is
\* still pending: the messages posted to the client's window are exactly the
\* responses of the responded flows, each once.
C5_OnePerResolvedRequest ==
  /\ Len(toClient) = Cardinality(Responded)
  /\ \A k \in 1..Len(toClient) :
       Cardinality({j \in 1..Len(toClient) : toClient[j] = toClient[k]})
         = Cardinality({i \in Responded : C5_ResponseOf(i) = toClient[k]})

\* One request was answered and another, whose handler rejected, was not.
C5_Witness ==
  /\ \E i \in 1..Len(flows) : flows[i].st = "rejected"
  /\ \E i \in 1..Len(flows) :
       flows[i].st = "responded" /\ toClient = <<C5_ResponseOf(i)>>

----------------------------------------------------------------------------
(* C6 *)

\* C6: a resolved call has no listener and never changes again, and the
\* dispatch of a further response carrying the id of a resolved call changes
\* no call and no listener.
C6_ResolvedOnce ==
  [][/\ \A c \in 1..Len(calls) :
          calls[c].state = "resolved" =>
            /\ c \notin clientListeners
            /\ c \notin clientListeners'
            /\ calls'[c] = calls[c]
     /\ (ClientDelivery
           /\ \E c \in 1..Len(calls) :
                /\ calls[c].state = "resolved"
                /\ Head(toClient).data.ns
                /\ Head(toClient).data.id = calls[c].id
                /\ "ret" \in Head(toClient).data.has)
          => UNCHANGED <<calls, clientListeners, toServer, flows>>]_vars

\* A second response with the id of a resolved call and another `ret` has
\* been dispatched.
C6_Witness ==
  /\ lastOp.name = "deliverClient"
  /\ \E c \in 1..Len(calls) :
       /\ calls[c].state = "resolved"
       /\ c \notin clientListeners
       /\ lastOp.msg.data.ns
       /\ lastOp.msg.data.id = calls[c].id
       /\ "ret" \in lastOp.msg.data.has
       /\ lastOp.msg.data.ret # calls[c].value

----------------------------------------------------------------------------
(* C7 *)

\* C7: with Client and Server alone on the channel, a request whose handler
\* threw or whose promise rejected has no response on its way, and the call
\* that made it is pending with its listener still registered.
C7_RejectedStaysPending ==
  \A i \in 1..Len(flows) :
    flows[i].st = "rejected" =>
      /\ \A k \in 1..Len(toClient) : toClient[k].data.id # flows[i].id
      /\ \A c \in 1..Len(calls) :
           calls[c].id = flows[i].id =>
             calls[c].state = "pending" /\ c \in clientListeners

\* The handler of a call rejected, every message has been dispatched and the
\* call is pending.
C7_Witness ==
  /\ toServer = <<>>
  /\ toClient = <<>>
  /\ \E i \in 1..Len(flows) :
       /\ flows[i].st = "rejected"
       /\ \E c \in 1..Len(calls) :
            calls[c].id = flows[i].id /\ calls[c].state = "pending"
  /\ lastOp.name = "reject"

----------------------------------------------------------------------------
(* C8 *)

\* What each handler returns for the call recorded in `combined`.
Returned ==
  [i \in 1..Len(handlers) |-> Invoke(handlers[i], combined.method, combined.args)]

\* C8: the combined handler returns what the first handler, in declared
\* order, that did not return null returned; with no such handler it returns
\* undefined; and (null, promise of "ok") yields "ok".
C8_FirstNotNull ==
  combined.called =>
    /\ \A i \in 1..Len(handlers) :
         (Returned[i] # NullRet /\ \A j \in 1..(i - 1) : Returned[j] = NullRet)
           => combined.result = Returned[i]
    /\ (\A i \in 1..Len(handlers) : Returned[i] = NullRet)
         => (combined.result = UndefinedRet /\ Await(combined.result) = Undefined)
    /\ handlers = <<"null", "ok">> => Await(combined.result) = Ok

\* combineHandlers(h1, h2) was called with h1 returning null and h2 a
\* promise of "ok", and returned that promise.
C8_Witness ==
  /\ combined.called
  /\ handlers = <<"null", "ok">>
  /\ combined.result = PromiseOf(Ok)

----------------------------------------------------------------------------
(* C9 *)

\* C9 (as claimed): handlers that return null or nothing are skipped, so the
\* combined handler returns the promise of the first handler that returned
\* one.
C9_SkipsNullAndAbsent ==
  combined.called =>
    \A i \in 1..Len(handlers) :
      (Returned[i].kind = "promise"
         /\ \A j \in 1..(i - 1) : Returned[j].kind # "promise")
        => combined.result = Returned[i]

----------------------------------------------------------------------------
(* C10 *)

\* C10: stop() can be called in every state; it leaves no listener
\* registered and changes nothing else, whether or not a listener was
\* registered; and a message dispatched while no listener is registered
\* calls no handler and posts nothing.
C10_StopIdempotent ==
  /\ [](ENABLED stop)
  /\ [][/\ lastOp'.name = "stop" =>
             /\ serverListeners' = {}
             /\ UNCHANGED <<toServer, toClient, flows, calls, clientListeners>>
        /\ (ServerDelivery /\ serverListeners = {})
             => UNCHANGED <<flows, toClient>>]_vars

\* stop() was called twice on a Server that was never started, and a
\* well-formed request from the client's origin dispatched afterwards called
\* no handler.
C10_Witness ==
  /\ lifecycle = <<"stop", "stop">>
  /\ serverListeners = {}
  /\ lastOp.name = "deliverServer"
  /\ lastOp.msg = MessageEvent(ClientOrigin, RequestEnvelope(1, "echo", <<2, 1>>))
  /\ flows = <<>>
  /\ toClient = <<>>

----------------------------------------------------------------------------
(* C12 *)

\* The head of toServer is a request a started Server hands to its handler.
Dispatchable ==
  /\ toServer # <<>>
  /\ messageListener \in serverListeners
  /\ Head(toServer).origin = clientOrigin
  /\ Head(toServer).data.ns
  /\ "method" \in Head(toServer).data.has
  /\ Head(toServer).data.method # ""
  /\ "args" \in Head(toServer).data.has

\* C12: a pending handler blocks nothing: every awaiting flow can resume at
\* once, whatever the state of the flows started before it; a request
\* dispatched while other flows are awaiting calls the handler; and a flow
\* that resumes posts, in the step it resumes in, the response carrying its
\* own id.
C12_NoBlocking ==
  /\ [](\A i \in 1..Len(flows) :
          flows[i].st = "awaiting" => ENABLED HandlerResolves(i, Ok))
  /\ [][/\ (ServerDelivery /\ Dispatchable)
             => /\ Len(flows') = Len(flows) + 1
                /\ flows'[Len(flows')].id = Head(toServer).data.id
                /\ flows'[Len(flows')].st \in {"awaiting", "responded", "rejected"}
        /\ \A i \in 1..Len(flows) :
             (flows[i].st = "awaiting" /\ flows'[i].st = "responded")
               => /\ SubSeq(toClient', 1, Len(toClient)) = toClient
                  /\ \E k \in (Len(toClient) + 1)..Len(toClient') :
                       toClient'[k] =
                         MessageEvent(ServerOrigin,
                                      ResponseEnvelope(flows[i].id, flows'[i].ret))]_vars

\* Request B (id 2) arrived after request A (id 1), whose handler was
\* pending; B's response was posted first and A's, with A's id, after it.
C12_Witness ==
  /\ Len(flows) = 2
  /\ flows[1].id = 1
  /\ flows[2].id = 2
  /\ flows[1].st = "responded"
  /\ flows[2].st = "responded"
  /\ Len(toClient) = 2
  /\ toClient[1].data = ResponseEnvelope(2, flows[2].ret)
  /\ toClient[2].data = ResponseEnvelope(1, flows[1].ret)
  /\ lastOp.name = "resolve"

----------------------------------------------------------------------------
(* C13 *)

\* C13: the Server never has more than its one listener registered, however
\* often start() is called; one dispatched message starts at most one flow,
\* and it adds exactly one response for each flow that ended with a value
\* during the dispatch; and stop() leaves no listener.
C13_StartIdempotent ==
  /\ [](serverListeners \subseteq {messageListener})
  /\ [][/\ lastOp'.name = "start" => serverListeners' = {messageListener}
        /\ lastOp'.name = "stop" => serverListeners' = {}
        /\ ServerDelivery
             => /\ Len(flows') <= Len(flows) + 1
                /\ Len(toClient') - Len(toClient) =
                     Cardinality({i \in 1..Len(flows') :
                                    /\ flows'[i].st = "responded"
                                    /\ i <= Len(flows) => flows[i].st # "responded"})]_vars

\* After start(); start(), one request was dispatched: the handler was called
\* once and one response posted.
C13_Witness ==
  /\ lifecycle = <<"start", "start">>
  /\ lastOp.name = "deliverServer"
  /\ lastOp.msg = MessageEvent(ClientOrigin, RequestEnvelope(1, "echo", <<2, 1>>))
  /\ Len(flows) = 1
  /\ flows[1].st = "responded"
  /\ toClient = <<MessageEvent(ServerOrigin, ResponseEnvelope(1, flows[1].ret))>>
  /\ injected = 1

----------------------------------------------------------------------------
(* C14 *)

\* C14 (as claimed): a message from the configured origin whose namespaced
\* value has a `method` field, empty or not, starts a flow; any other
\* message starts none.
C14_RequestIffMethodField ==
  [][(ServerDelivery /\ messageListener \in serverListeners
        /\ Head(toServer).origin = clientOrigin)
       => IF Head(toServer).data.ns /\ "method" \in Head(toServer).data.has
            THEN Len(flows') = Len(flows) + 1
            ELSE flows' = flows]_vars

----------------------------------------------------------------------------
(* C15 *)

\* The handler returned null or a promise that resolves to null.
C15_Declines(r) == r = NullRet \/ r = PromiseOf(Null)

\* C15 (as claimed): a handler that returns a promise of null is passed over
\* like one that returns null: the combined handler returns what the first
\* handler that did neither returned.
C15_PromiseOfNullSkipped ==
  combined.called =>
    \A i \in 1..Len(handlers) :
      (~C15_Declines(Returned[i]) /\ \A j \in 1..(i - 1) : C15_Declines(Returned[j]))
        => combined.result = Returned[i]

\* C15 (amended): a handler that returns a promise of null is selected like
\* any handler that returns a promise: when every handler before it returned
\* null, the combined handler returns that promise, which resolves to null,
\* whatever the handlers after it return.
C15_PromiseOfNullSelected ==
  combined.called =>
    \A i \in 1..Len(handlers) :
      (Returned[i] = PromiseOf(Null) /\ \A j \in 1..(i - 1) : Returned[j] = NullRet)
        => (combined.result = PromiseOf(Null) /\ Await(combined.result) = Null)

\* A promise of null was selected although the next handler returned a
\* promise of "ok".
C15_Witness ==
  /\ combined.called
  /\ handlers = <<"null", "pnull", "ok">>
  /\ combined.result = PromiseOf(Null)

----------------------------------------------------------------------------
(* C16 *)

\* C16: one call of the combined handler calls every handler exactly once,
\* in declared order, with the method and args of the call, whether or not
\* an earlier handler returned a result.
C16_AllInvokedInOrder ==
  combined.called =>
    /\ Len(combined.invoked) = Len(handlers)
    /\ \A i \in 1..Len(handlers) :
         /\ combined.invoked[i].handler = handlers[i]
         /\ combined.invoked[i].method = combined.method
         /\ combined.invoked[i].args = combined.args

\* The first handler returned a promise and the two after it were called
\* all the same.
C16_Witness ==
  /\ combined.called
  /\ handlers = <<"ok", "null", "echo">>
  /\ combined.method = "echo"
  /\ combined.result = PromiseOf(Ok)
  /\ Len(combined.invoked) = 3
  /\ combined.invoked[3] = Invocation("echo", "echo", combined.args)

----------------------------------------------------------------------------
(* C17 *)

\* The calls that are not resolved.
Pending == {c \in 1..Len(calls) : calls[c].state = "pending"}

\* The message carries the namespace key, the id of call c and a `ret`.
Matches(data, c) == data.ns /\ data.id = calls[c].id /\ "ret" \in data.has

\* C17: the registered response listeners are exactly those of the pending
\* calls; request() adds the listener of the new call and nothing else; a
\* dispatched message removes exactly the listeners of the calls it matches
\* and leaves every other call and listener as it was.
C17_ListenersArePendingCalls ==
  /\ [](clientListeners = Pending)
  /\ [][/\ lastOp'.name = "request"
             => /\ Len(calls') = Len(calls) + 1
                /\ clientListeners' = clientListeners \cup {Len(calls')}
                /\ \A c \in 1..Len(calls) : calls'[c] = calls[c]
        /\ ClientDelivery
             => /\ clientListeners' =
                     clientListeners \ {c \in clientListeners :
                                          Matches(Head(toClient).data, c)}
                /\ \A c \in 1..Len(calls) :
                     ~Matches(Head(toClient).data, c) => calls'[c] = calls[c]]_vars

\* A namespaced message with the id of a pending call but no `ret` has been
\* dispatched: the call is still pending and its listener registered.
C17_Witness ==
  /\ lastOp.name = "deliverClient"
  /\ lastOp.msg.data = Payload({"id"}, 1, "", <<>>, Undefined)
  /\ Len(calls) = 2
  /\ calls[1].state = "pending"
  /\ clientListeners = {1, 2}

----------------------------------------------------------------------------
(* C19 *)

\* C19: the response listener does not look at the sender: a message not
\* sent from the server's origin that carries the namespace key, the id of a
\* pending call and a `ret` field resolves that call to its `ret`.
C19_AnyOriginResolves ==
  [][\A c \in 1..Len(calls) :
       (ClientDelivery /\ Head(toClient).origin # ServerOrigin
          /\ calls[c].state = "pending" /\ Matches(Head(toClient).data, c))
         => /\ calls'[c].state = "resolved"
            /\ calls'[c].value = Head(toClient).data.ret
            /\ c \notin clientListeners']_vars

\* A call has been resolved to the `ret` of a message from another origin.
C19_Witness ==
  /\ lastOp.name = "deliverClient"
  /\ lastOp.msg = MessageEvent(OtherOrigin, ResponseEnvelope(1, Forged))
  /\ Len(calls) >= 1
  /\ calls[1].state = "resolved"
  /\ calls[1].value = Forged
  /\ 1 \notin clientListeners

----------------------------------------------------------------------------
(* C20 *)

\* C20: stop() cancels no flow: it changes no flow, every awaiting flow can
\* still resume while no listener is registered, and when it resumes it
\* posts its response; a message dispatched while no listener is registered
\* starts no flow.
C20_StopKeepsFlows ==
  /\ [](\A i \in 1..Len(flows) :
          (flows[i].st = "awaiting" /\ serverListeners = {})
            => ENABLED HandlerResolves(i, Ok))
  /\ [][/\ lastOp'.name = "stop" => UNCHANGED <<flows, toClient>>
        /\ \A i \in 1..Len(flows) :
             (serverListeners = {} /\ flows[i].st = "awaiting"
                /\ flows'[i].st = "responded")
               => /\ Len(toClient') = Len(toClient) + 1
                  /\ toClient'[Len(toClient')] =
                       MessageEvent(ServerOrigin,
                                    ResponseEnvelope(flows[i].id, flows'[i].ret))
        /\ (ServerDelivery /\ serverListeners = {}) => flows' = flows]_vars

\* A handler called before stop() resolved after it and its response was
\* posted, while a request dispatched after stop() called no handler.
C20_Witness ==
  /\ lifecycle = <<"start", "stop">>
  /\ serverListeners = {}
  /\ lastOp.name = "resolve"
  /\ Len(calls) = 2
  /\ calls[2].method = "echo"
  /\ toServer = <<>>
  /\ Len(flows) = 1
  /\ flows[1].id = 1
  /\ flows[1].st = "responded"
  /\ toClient = <<MessageEvent(ServerOrigin, ResponseEnvelope(flows[1].id, flows[1].ret))>>

----------------------------------------------------------------------------
(* C11 *)

\* Every handler given to combineHandlers returns null for the call.
AllDecline(method, args) ==
  \A i \in 1..Len(handlers) : Invoke(handlers[i], method, args) = NullRet

\* C11: with a combined handler none of whose handlers claims the method,
\* the Server answers a request, in the dispatch of the request, with a
\* response envelope that carries the request's id and a `ret` field whose
\* value is undefined; that envelope dispatched to the Client resolves the
\* pending call with its id to undefined; and every resolved call whose
\* method no handler claims has the value undefined.
C11_UnclaimedResolvesUndefined ==
  /\ [](\A c \in 1..Len(calls) :
          (calls[c].state = "resolved" /\ AllDecline(calls[c].method, calls[c].args))
            => calls[c].value = Undefined)
  /\ [][/\ (ServerDelivery /\ Dispatchable
              /\ AllDecline(Head(toServer).data.method, Head(toServer).data.args))
             => /\ Len(toClient') = Len(toClient) + 1
                /\ toClient'[Len(toClient')].data.ns
                /\ toClient'[Len(toClient')].data.id = Head(toServer).data.id
                /\ "ret" \in toClient'[Len(toClient')].data.has
                /\ toClient'[Len(toClient')].data.ret = Undefined
        /\ \A c \in 1..Len(calls) :
             (ClientDelivery /\ calls[c].state = "pending"
                /\ Head(toClient).data = ResponseEnvelope(calls[c].id, Undefined))
               => /\ calls'[c].state = "resolved"
                  /\ calls'[c].value = Undefined
                  /\ c \notin clientListeners']_vars

\* A call was answered by a Server whose two handlers both returned null, and
\* the response resolved it to undefined.
C11_Witness ==
  /\ _handler = "combined"
  /\ handlers = <<"null", "null">>
  /\ lastOp = Op("deliverClient",
                 MessageEvent(ServerOrigin, ResponseEnvelope(1, Undefined)))
  /\ Len(calls) >= 1
  /\ calls[1].method = "echo"
  /\ calls[1].state = "resolved"
  /\ calls[1].value = Undefined
  /\ Len(flows) = 1
  /\ flows[1].st = "responded"
  /\ flows[1].ret = Undefined

----------------------------------------------------------------------------
(* C18 *)

\* C18: an envelope without a `ret` field dispatched to the Client resolves
\* no call and removes no listener, whatever id it carries; an envelope
\* without a `method` field dispatched to the Server calls no handler and
\* posts no response; and the dispatch of a message to the Client posts
\* nothing to the Server, so no envelope answers an envelope.
C18_EnvelopesNotConfused ==
  [][/\ (ClientDelivery /\ "ret" \notin Head(toClient).data.has)
          => calls' = calls /\ clientListeners' = clientListeners
     /\ (ServerDelivery /\ "method" \notin Head(toServer).data.has)
          => flows' = flows /\ toClient' = toClient
     /\ ClientDelivery => toServer' = toServer
     /\ ServerDelivery => toServer' = Tail(toServer)]_vars

\* A response envelope with the id of the first call has been dispatched to
\* the started Server, which called its handler for the Client's request
\* only; a request envelope with that id has just been dispatched to the
\* Client, whose call is still pending.
C18_Witness ==
  /\ lastOp = Op("deliverClient",
                 MessageEvent(ServerOrigin, RequestEnvelope(1, "echo", <<1, 2>>)))
  /\ injected = 2
  /\ lifecycle = <<"start">>
  /\ toServer = <<>>
  /\ Len(flows) = 1
  /\ flows[1].st = "awaiting"
  /\ toClient = <<>>
  /\ Len(calls) = 1
  /\ calls[1].method = "echo"
  /\ calls[1].state = "pending"
  /\ clientListeners = {1}

====
